---- MODULE Spec2Model ----
(***************************************************************************)
(* The C++ bridge (c_bridge.cpp over MyCppClass.cpp) and the C library      *)
(* (mylib.c) of the interoperability examples, as a state machine.           *)
(*                                                                           *)
(* The heap of MyCppClass objects and of malloc'ed message buffers is the    *)
(* state; every extern "C" function is one action.  The caller's own         *)
(* bookkeeping (the handles and buffers it holds, what it asked for) is kept  *)
(* apart from the heap, so that what the code does can be compared with what  *)
(* the caller was promised.                                                   *)
(***************************************************************************)
EXTENDS Integers, Sequences, FiniteSets

\* ---------------------------------------------------------------- bounds

\* Cells of the heap: MyCppClass objects and message buffers live in them.
MaxHeap == 3
\* The caller of all nine functions has at most this many blocks at once.
MaxBlocks == 2
\* calculateSum / calculate_average arrays hold at most this many doubles.
MaxCount == 3
\* Texts given to setMessage are at most this long.
MaxTextLen == 1
\* increment is called on a value at most this far above a created value.
MaxIncs == 2

\* ------------------------------------------------------ program constants

\* int is 32 bits wide: the largest int.
INT_MAX == 2147483647
INT_MIN == -INT_MAX - 1
\* A double carries this many significant bits (IEEE 754 binary64).
DBL_MANT_DIG == 53

NULL == 0

\* What the caller has from its last call: the function called, the value
\* returned, and whether an exception left the function.
Returned(op, val, escaped) == [op |-> op, val |-> val, escaped |-> escaped]

\* ------------------------------------------------- double arithmetic
\* A finite double is sign * mant * 2^exp with mant a natural number of at
\* most DBL_MANT_DIG bits, odd or zero (so each value has one
\* representation).  A natural number is kept as its digits to the base
\* 2^LimbBits, lowest first, the highest not zero.  Sums and quotients are
\* rounded to nearest, ties to even, as the hardware does.  Exponent
\* overflow and underflow are out of reach of the values drawn here.

RECURSIVE IntBits(_)
IntBits(n) == IF n = 0 THEN 0 ELSE 1 + IntBits(n \div 2)

Base == 2^15

LimbBits == IntBits(Base) - 1

Pow2(k) == 2^k

RECURSIVE IntLowZeros(_)
IntLowZeros(n) == IF n % 2 = 1 THEN 0 ELSE 1 + IntLowZeros(n \div 2)

LimbAt(a, i) == IF i >= 1 /\ i <= Len(a) THEN a[i] ELSE 0

RECURSIVE Trim(_)
Trim(a) ==
  IF a = <<>> THEN a
  ELSE IF a[Len(a)] = 0 THEN Trim(SubSeq(a, 1, Len(a) - 1)) ELSE a

BitLen(a) ==
  IF a = <<>> THEN 0 ELSE LimbBits * (Len(a) - 1) + IntBits(a[Len(a)])

\* Bit i of a, the lowest being bit 1
BitAt(a, i) ==
  (LimbAt(a, (i - 1) \div LimbBits + 1) \div Pow2((i - 1) % LimbBits)) % 2

RECURSIVE AddFrom(_, _, _, _)
AddFrom(a, b, i, c) ==
  IF i > Len(a) /\ i > Len(b)
    THEN (IF c = 0 THEN <<>> ELSE <<c>>)
    ELSE LET t == LimbAt(a, i) + LimbAt(b, i) + c
         IN  <<t % Base>> \o AddFrom(a, b, i + 1, t \div Base)

AddBits(a, b) == AddFrom(a, b, 1, 0)

\* a - b for a >= b
RECURSIVE SubFrom(_, _, _, _)
SubFrom(a, b, i, c) ==
  IF i > Len(a) THEN <<>>
  ELSE LET t == LimbAt(a, i) - LimbAt(b, i) - c
       IN  <<t % Base>> \o SubFrom(a, b, i + 1, IF t < 0 THEN 1 ELSE 0)

SubBits(a, b) == Trim(SubFrom(a, b, 1, 0))

RECURSIVE LessFrom(_, _, _)
LessFrom(a, b, i) ==
  IF i = 0 THEN FALSE
  ELSE IF a[i] # b[i] THEN a[i] < b[i] ELSE LessFrom(a, b, i - 1)

LessBits(a, b) ==
  IF Len(a) # Len(b) THEN Len(a) < Len(b) ELSE LessFrom(a, b, Len(a))

\* a * m for a small natural m
RECURSIVE MulFrom(_, _, _, _)
MulFrom(a, m, i, c) ==
  IF i > Len(a) THEN (IF c = 0 THEN <<>> ELSE <<c>>)
  ELSE LET t == a[i] * m + c
       IN  <<t % Base>> \o MulFrom(a, m, i + 1, t \div Base)

\* Long division of a by the small natural n >= 1, from the highest digit
\* down, r the remainder carried in.
RECURSIVE DivFrom(_, _, _, _, _)
DivFrom(a, n, i, r, q) ==
  IF i = 0 THEN [q |-> Trim(q), r |-> r]
  ELSE LET t == r * Base + a[i]
       IN  DivFrom(a, n, i - 1, t % n, <<t \div n>> \o q)

\* a * 2^k
Shl(a, k) ==
  IF a = <<>> THEN a
  ELSE [i \in 1..(k \div LimbBits) |-> 0] \o MulFrom(a, Pow2(k % LimbBits), 1, 0)

\* a \div 2^k
Shr(a, k) ==
  LET q == k \div LimbBits
      top == IF q >= Len(a) THEN <<>> ELSE SubSeq(a, q + 1, Len(a))
  IN  DivFrom(top, Pow2(k % LimbBits), Len(top), 0, <<>>).q

RECURSIVE LowZeros(_)
LowZeros(a) ==
  IF a = <<>> THEN 0
  ELSE IF a[1] = 0 THEN LimbBits + LowZeros(Tail(a)) ELSE IntLowZeros(a[1])

DNaN == [cls |-> "nan", sign |-> 0, mant |-> <<>>, exp |-> 0]
DZero == [cls |-> "finite", sign |-> 0, mant |-> <<>>, exp |-> 0]

\* The one representation of sign * m * 2^e
Norm(sign, m, e) ==
  LET t == Trim(m)
      z == LowZeros(t)
  IN  IF t = <<>> THEN DZero
      ELSE [cls |-> "finite", sign |-> sign, mant |-> Shr(t, z), exp |-> e + z]

\* sign * m * 2^e rounded to a double: to nearest, ties to even.
RoundPack(sign, m, e) ==
  LET t == Trim(m) IN
  IF BitLen(t) <= DBL_MANT_DIG THEN Norm(sign, t, e)
  ELSE LET drop == BitLen(t) - DBL_MANT_DIG
           kept == Shr(t, drop)
           guard == BitAt(t, drop)
           sticky == LowZeros(t) < drop - 1
           up == guard = 1 /\ (sticky \/ kept[1] % 2 = 1)
       IN  Norm(sign, IF up THEN AddBits(kept, <<1>>) ELSE kept, e + drop)

\* x + y before rounding, as sign * mant * 2^exp with mant of any length
ExactAdd(x, y) ==
  LET e == IF x.exp < y.exp THEN x.exp ELSE y.exp
      mx == Shl(x.mant, x.exp - e)
      my == Shl(y.mant, y.exp - e)
  IN  IF x.sign = y.sign THEN Norm(x.sign, AddBits(mx, my), e)
      ELSE IF LessBits(mx, my) THEN Norm(y.sign, SubBits(my, mx), e)
      ELSE Norm(x.sign, SubBits(mx, my), e)

\* A value a double holds without rounding
Representable(x) == x.cls = "finite" /\ BitLen(x.mant) <= DBL_MANT_DIG

\* x + y on doubles
DAdd(x, y) ==
  IF x.cls = "nan" \/ y.cls = "nan" THEN DNaN
  ELSE LET r == ExactAdd(x, y) IN RoundPack(r.sign, r.mant, r.exp)

\* x / (double)n for a count n; 0.0 / 0 is NaN, nonzero / 0 is left out.
\* The quotient is taken to more bits than a double keeps, with one more low
\* bit set when the division left a remainder.
DDivCount(x, n) ==
  IF x.cls = "nan" \/ n = 0 THEN DNaN
  ELSE IF x.mant = <<>> THEN DZero
  ELSE LET k == DBL_MANT_DIG + 2 + IntBits(n)
           a == Shl(x.mant, k)
           d == DivFrom(a, n, Len(a), 0, <<>>)
       IN  RoundPack(x.sign,
                     AddBits(Shl(d.q, 1), IF d.r = 0 THEN <<>> ELSE <<1>>),
                     x.exp - k - 1)

\* The C comparison x == y (a NaN equals nothing, itself included).
DEq(x, y) == x.cls = "finite" /\ y.cls = "finite" /\ x = y

\* The double of the integer n * 2^e, for a small integer n.
DInt(n, e) == IF n < 0 THEN Norm(1, <<-n>>, e) ELSE Norm(0, <<n>>, e)

\* ------------------------------------------------------------ C strings

NUL == "NUL"
\* A byte of a malloc'ed block nothing was written to yet.
Uninit == "?"

\* The std::string literal "Default message"
DefaultMessage ==
  <<"D", "e", "f", "a", "u", "l", "t", " ", "m", "e", "s", "s", "a", "g", "e">>

\* std::string::c_str(): the characters and the terminating NUL
c_str(s) == s \o <<NUL>>

\* strlen: the number of bytes before the first NUL (the array ends in one)
RECURSIVE strlen(_)
strlen(bytes) ==
  IF bytes = <<>> \/ Head(bytes) = NUL THEN 0 ELSE 1 + strlen(Tail(bytes))

\* std::string(const char*): the bytes up to the first NUL
StdString(bytes) == SubSeq(bytes, 1, strlen(bytes))

\* strcpy(dst, src): src through its NUL over the front of dst; a src longer
\* than dst writes past the block (what fits is kept, over is set).
strcpy(dst, src) ==
  LET n == strlen(src) + 1 IN
  [bytes |-> [i \in 1..Len(dst) |-> IF i <= n THEN src[i] ELSE dst[i]],
   over |-> n > Len(dst)]

\* A pointer argument that may be null: a null pointer, or a pointer to data.
NullPtr == [null |-> TRUE]
PtrTo(data) == [null |-> FALSE, at |-> data]

\* ------------------------------------------------------------ MyCppClass

\* MyCppClass::MyCppClass(int initial_value)
MyCppClass(initial_value) ==
  [kind |-> "obj", value |-> initial_value, message |-> DefaultMessage]

getValue(this) == this.value

\* A setValue that assigns a new object (*this = MyCppClass(value))
setValue_assign(this, value) == MyCppClass(value)

setValue(this, value) == [this EXCEPT !.value = value]

\* value_++: past INT_MAX the behaviour is undefined; a build wraps to
\* INT_MIN, or (built to trap on overflow) aborts before storing.
increment(this) ==
  IF this.value = INT_MAX
    THEN {[this |-> [this EXCEPT !.value = INT_MIN], overflow |-> TRUE, trap |-> FALSE],
          [this |-> this, overflow |-> TRUE, trap |-> TRUE]}
    ELSE {[this |-> [this EXCEPT !.value = @ + 1], overflow |-> FALSE, trap |-> FALSE]}

getMessage(this) == this.message

\* A setMessage that appends to the message (message_ += msg)
setMessage_append(this, msg) == [this EXCEPT !.message = @ \o msg]

setMessage(this, msg) == [this EXCEPT !.message = msg]

\* std::accumulate(first, last, init): init + v1 + v2 + ..., left to right
RECURSIVE accumulate(_, _)
accumulate(values, init) ==
  IF values = <<>> THEN init
  ELSE accumulate(Tail(values), DAdd(init, Head(values)))

calculateSum(this, values) == accumulate(values, DZero)

\* ------------------------------------------------------------ the state

VARIABLES
  heap,     \* heap[a]: the block at address a: free, a MyCppClass or a buffer
  ret,      \* the last call: its name, arguments and what came back
  ub,       \* the undefined behaviours executed so far
  trapped,  \* the process was aborted by an overflow trap
  held,     \* caller: the handles it got from create and has not destroyed
  owned,    \* caller: the buffers it got from getMessage and has not freed
  hist,     \* caller: per held handle, what it asked of the object
  args      \* caller: the arguments of its last call, where it notes them

vars == <<heap, ret, ub, trapped, held, owned, hist, args>>

Addr == 1..MaxHeap
Free == [kind |-> "free"]

Live(obj) == obj \in Addr /\ heap[obj].kind = "obj"
Allocated(str) == str \in Addr /\ heap[str].kind = "buf"
Objects == {a \in Addr : heap[a].kind = "obj"}
Buffers == {a \in Addr : heap[a].kind = "buf"}
FreeCells == {a \in Addr : heap[a].kind = "free"}

\* What a function body does: the heap it leaves, the undefined behaviour it
\* executed, whether it trapped, and the value it returned or the exception
\* it threw (fault names the allocation that failed in it).
Does(hp, val) ==
  [heap |-> hp, ub |-> {}, trap |-> FALSE, val |-> val, threw |-> FALSE, fault |-> "none"]
Throws(fault) ==
  [heap |-> heap, ub |-> {}, trap |-> FALSE, val |-> NULL, threw |-> TRUE, fault |-> fault]
Undefined(what, val) ==
  [heap |-> heap, ub |-> {what}, trap |-> FALSE, val |-> val, threw |-> FALSE, fault |-> "none"]

\* A function body with no try block around it
TryCatch_none(body, sentinel) ==
  [heap |-> body.heap, ub |-> body.ub, trap |-> body.trap, val |-> body.val,
   escaped |-> body.threw, fault |-> body.fault]

\* try { body } catch (...) { return sentinel; }
TryCatch(body, sentinel) ==
  [heap |-> body.heap, ub |-> body.ub, trap |-> body.trap,
   val |-> IF body.threw THEN sentinel ELSE body.val,
   escaped |-> FALSE, fault |-> body.fault]

\* A body outside any try block: what it throws reaches the caller.
NoTry(body) ==
  [heap |-> body.heap, ub |-> body.ub, trap |-> body.trap, val |-> body.val,
   escaped |-> body.threw, fault |-> body.fault]

\* ------------------------------------------------ the extern "C" functions
\* Each gives the outcomes the call can have in the current heap.  fault
\* names the allocation that is to fail during the call, "none" if none.

\* new MyCppClass(initial_value): operator new, then the constructor; when
\* either throws, the block is released again before the exception leaves.
new_MyCppClass(initial_value, fault) ==
  IF fault = "none" /\ FreeCells # {}
    THEN {Does([heap EXCEPT ![a] = MyCppClass(initial_value)], a) : a \in FreeCells}
    ELSE {Throws(IF fault = "none" THEN "new" ELSE fault)}

MyCppClass_create(initial_value, fault) ==
  {TryCatch(body, NULL) : body \in new_MyCppClass(initial_value, fault)}

\* A destroy that deletes nothing
delete_nothing(obj) == Does(heap, NULL)

\* delete cast(obj)
delete(obj) ==
  IF Live(obj) THEN Does([heap EXCEPT ![obj] = Free], NULL)
  ELSE Undefined("delete_dangling", NULL)

MyCppClass_destroy(obj) ==
  IF obj # NULL THEN {NoTry(delete(obj))} ELSE {NoTry(Does(heap, NULL))}

\* A getValue without the test for null: it reads through the null pointer
MyCppClass_getValue_nocheck(obj) ==
  IF ~Live(obj) THEN {NoTry(Undefined("null_deref", -1))}
  ELSE {TryCatch(Does(heap, getValue(heap[obj])), 0)}

MyCppClass_getValue(obj) ==
  IF obj = NULL THEN {NoTry(Does(heap, 0))}
  ELSE IF ~Live(obj) THEN {NoTry(Undefined("use_after_free", 0))}
  ELSE {TryCatch(Does(heap, getValue(heap[obj])), 0)}

MyCppClass_setValue(obj, value) ==
  IF obj = NULL THEN {NoTry(Does(heap, NULL))}
  ELSE IF ~Live(obj) THEN {NoTry(Undefined("use_after_free", NULL))}
  ELSE {TryCatch(Does([heap EXCEPT ![obj] = setValue(@, value)], NULL), NULL)}

MyCppClass_increment(obj) ==
  IF obj = NULL THEN {NoTry(Does(heap, NULL))}
  ELSE IF ~Live(obj) THEN {NoTry(Undefined("use_after_free", NULL))}
  ELSE {TryCatch([heap |-> [heap EXCEPT ![obj] = o.this],
                  ub |-> IF o.overflow THEN {"signed_overflow"} ELSE {},
                  trap |-> o.trap, val |-> NULL, threw |-> FALSE, fault |-> "none"],
                 NULL) : o \in increment(heap[obj])}

\* malloc(size): a block no live block overlaps, or NULL
malloc(size, fault) ==
  IF fault = "malloc" \/ FreeCells = {} THEN {NULL} ELSE FreeCells

\* The size getMessage asks of malloc for msg
BufferSize(msg) == Len(msg) + 1

\* The body of getMessage's try block
getMessage_body(obj, fault) ==
  IF fault = "copy" THEN {Throws("copy")}
  ELSE LET msg == getMessage(heap[obj]) IN
       {IF result = NULL
          THEN [Does(heap, NULL) EXCEPT !.fault = "malloc"]
          ELSE LET w == strcpy([i \in 1..BufferSize(msg) |-> Uninit], c_str(msg))
               IN  [Does([heap EXCEPT ![result] = [kind |-> "buf", bytes |-> w.bytes]],
                         result)
                     EXCEPT !.ub = IF w.over THEN {"buffer_overflow"} ELSE {}]
        : result \in malloc(BufferSize(msg), fault)}

MyCppClass_getMessage(obj, fault) ==
  IF obj = NULL THEN {NoTry(Does(heap, NULL))}
  ELSE IF ~Live(obj) THEN {NoTry(Undefined("use_after_free", NULL))}
  ELSE {TryCatch(body, NULL) : body \in getMessage_body(obj, fault)}

\* message: a null pointer or a pointer to a NUL-terminated array
MyCppClass_setMessage(obj, message, fault) ==
  IF obj = NULL \/ message.null THEN {NoTry(Does(heap, NULL))}
  ELSE IF ~Live(obj) THEN {NoTry(Undefined("use_after_free", NULL))}
  ELSE {TryCatch(IF fault = "string" THEN Throws("string")
                 ELSE Does([heap EXCEPT ![obj] = setMessage(@, StdString(message.at))],
                           NULL),
                 NULL)}

\* A freeString that releases nothing
MyCppClass_freeString_leak(str) == {NoTry(Does(heap, NULL))}

\* free(str)
MyCppClass_freeString(str) ==
  IF str = NULL THEN {NoTry(Does(heap, NULL))}
  ELSE IF ~Allocated(str) THEN {NoTry(Undefined("double_free", NULL))}
  ELSE {NoTry(Does([heap EXCEPT ![str] = Free], NULL))}

\* A vector that leaves out the last of the count elements
vector_short(values, count) == SubSeq(values, 1, count - 1)

\* std::vector<double> vec(values, values + count)
vector(values, count) == SubSeq(values, 1, count)

\* values: a null pointer or a pointer to an array of at least count doubles
MyCppClass_calculateSum(obj, values, count, fault) ==
  IF obj = NULL \/ values.null THEN {NoTry(Does(heap, DZero))}
  ELSE IF ~Live(obj) THEN {NoTry(Undefined("use_after_free", DZero))}
  ELSE {TryCatch(IF fault = "vector" THEN Throws("vector")
                 ELSE Does(heap, calculateSum(heap[obj], vector(values.at, count))),
                 DZero)}

\* ------------------------------------------------------------ the caller
\* The caller keeps to the contract of c_bridge.h: it passes null or a handle
\* it holds, frees null or a buffer it owns, and gives calculateSum a count
\* that its array holds.  One call is one step.

\* The state after a call with outcome o
Call(op, o) ==
  /\ ret' = Returned(op, o.val, o.escaped)
  /\ heap' = o.heap
  /\ ub' = ub \cup o.ub
  /\ trapped' = o.trap

\* The inputs drawn
IntVals == {-1, INT_MAX - 1}
Alphabet == {"a"}
SeqsUpTo(S, n) == UNION {[1..k -> S] : k \in 0..n}
Texts == SeqsUpTo(Alphabet, MaxTextLen)
TextArgs == {NullPtr} \cup {PtrTo(t) : t \in Texts}
Doubles == {DZero, DInt(1, 0), DInt(-1, 0), DInt(1, DBL_MANT_DIG)}
Arrays == SeqsUpTo(Doubles, MaxCount)
Handles == held \cup {NULL}

\* increment is called on values less than MaxIncs above a drawn value
MayIncrement(value) ==
  \E v \in IntVals, k \in 0..(MaxIncs - 1) : v <= INT_MAX - k /\ value = v + k

Call_create(v, fault) ==
  \E o \in MyCppClass_create(v, fault) :
    /\ Call("create", o)
    /\ held' = held \cup ({o.val} \ {NULL})
    /\ UNCHANGED owned

Call_destroy(h) ==
  \E o \in MyCppClass_destroy(h) :
    /\ Call("destroy", o)
    /\ held' = held \ {h}
    /\ UNCHANGED owned

Call_getValue(h) ==
  \E o \in MyCppClass_getValue(h) :
    /\ Call("getValue", o)
    /\ UNCHANGED <<held, owned>>

Call_setValue(h, v) ==
  \E o \in MyCppClass_setValue(h, v) :
    /\ Call("setValue", o)
    /\ UNCHANGED <<held, owned>>

Call_increment(h) ==
  /\ h # NULL => MayIncrement(heap[h].value)
  /\ \E o \in MyCppClass_increment(h) :
       /\ Call("increment", o)
       /\ UNCHANGED <<held, owned>>

Call_getMessage(h, fault) ==
  \E o \in MyCppClass_getMessage(h, fault) :
    /\ Call("getMessage", o)
    /\ owned' = owned \cup ({o.val} \ {NULL})
    /\ UNCHANGED held

\* text: a pointer to the text the caller wants set, or a null pointer; what
\* is passed is the text as a C string.
Call_setMessage(h, text, fault) ==
  \E o \in MyCppClass_setMessage(h, IF text.null THEN NullPtr ELSE PtrTo(c_str(text.at)),
                                 fault) :
    /\ Call("setMessage", o)
    /\ UNCHANGED <<held, owned>>

Call_freeString(str) ==
  \E o \in MyCppClass_freeString(str) :
    /\ Call("freeString", o)
    /\ owned' = owned \ {str}
    /\ UNCHANGED held

Call_calculateSum(h, values, count, fault) ==
  \E o \in MyCppClass_calculateSum(h, values, count, fault) :
    /\ Call("calculateSum", o)
    /\ UNCHANGED <<held, owned>>

\* What the caller asked of an object since it created it.  base: the value
\* given to create; incs: the increments since; set: setValue was called
\* (and base and incs are kept no longer); done: the text of the last
\* setMessage with a text during which no allocation failed, if any.
NoHist == [base |-> 0, incs |-> 0, set |-> FALSE, done |-> NullPtr]

Note_create(v) ==
  IF ret'.val = NULL THEN hist ELSE [hist EXCEPT ![ret'.val] = [NoHist EXCEPT !.base = v]]

Note_destroy(h) == IF h = NULL THEN hist ELSE [hist EXCEPT ![h] = NoHist]

Note_setValue(h) ==
  IF h = NULL THEN hist
  ELSE [hist EXCEPT ![h] = [@ EXCEPT !.base = 0, !.incs = 0, !.set = TRUE]]

Note_increment(h) ==
  IF h = NULL \/ hist[h].set THEN hist ELSE [hist EXCEPT ![h].incs = @ + 1]

Note_setMessage(h, text, fault) ==
  IF h = NULL \/ text.null \/ fault # "none" THEN hist ELSE [hist EXCEPT ![h].done = text]

NoArgs == [values |-> NullPtr, count |-> 0]

\* No object, no buffer, no call made yet
Fresh ==
  /\ heap = [a \in Addr |-> Free]
  /\ ret = Returned("none", NULL, FALSE)
  /\ ub = {}
  /\ trapped = FALSE
  /\ held = {}
  /\ owned = {}
  /\ hist = [a \in Addr |-> NoHist]

Init == Fresh /\ args = NoArgs

CreateFaults == {"none", "new", "ctor"}
GetMessageFaults == {"none", "copy", "malloc"}
SetMessageFaults == {"none", "string"}
SumFaults == {"none", "vector"}

\* The arrays the caller of all nine functions sums: none, and 1.0 + 1.0
SumArgs ==
  {[values |-> NullPtr, count |-> 1],
   [values |-> PtrTo(<<DInt(1, 0), DInt(1, 0)>>), count |-> 2]}

\* ---- a caller of all nine functions (it takes no notes); it asks for a new
\* object or buffer only while it has fewer than MaxBlocks blocks.

Create ==
  /\ ~trapped /\ UNCHANGED <<hist, args>>
  /\ Cardinality(held \cup owned) < MaxBlocks
  /\ \E v \in IntVals, fault \in CreateFaults : Call_create(v, fault)

Destroy ==
  /\ ~trapped /\ UNCHANGED <<hist, args>>
  /\ \E h \in Handles : Call_destroy(h)

GetValue ==
  /\ ~trapped /\ UNCHANGED <<hist, args>>
  /\ \E h \in Handles : Call_getValue(h)

SetValue ==
  /\ ~trapped /\ UNCHANGED <<hist, args>>
  /\ \E h \in Handles, v \in IntVals : Call_setValue(h, v)

Increment ==
  /\ ~trapped /\ UNCHANGED <<hist, args>>
  /\ \E h \in Handles : Call_increment(h)

GetMessage ==
  /\ ~trapped /\ UNCHANGED <<hist, args>>
  /\ Cardinality(held \cup owned) < MaxBlocks
  /\ \E h \in Handles, fault \in GetMessageFaults : Call_getMessage(h, fault)

SetMessage ==
  /\ ~trapped /\ UNCHANGED <<hist, args>>
  /\ \E h \in Handles, text \in TextArgs, fault \in SetMessageFaults :
       Call_setMessage(h, text, fault)

FreeString ==
  /\ ~trapped /\ UNCHANGED <<hist, args>>
  /\ \E str \in owned \cup {NULL} : Call_freeString(str)

CalculateSum ==
  /\ ~trapped /\ UNCHANGED <<hist, args>>
  /\ \E h \in Handles, a \in SumArgs, fault \in SumFaults :
       Call_calculateSum(h, a.values, a.count, fault)

Next ==
  \/ Create \/ Destroy \/ GetValue \/ SetValue \/ Increment
  \/ GetMessage \/ SetMessage \/ FreeString \/ CalculateSum

Spec == Init /\ [][Next]_vars

\* ---- a caller of the value functions that notes what it asked

ValueCreate ==
  /\ ~trapped /\ UNCHANGED args
  /\ \E v \in IntVals, fault \in CreateFaults : Call_create(v, fault) /\ hist' = Note_create(v)

ValueDestroy ==
  /\ ~trapped /\ UNCHANGED args
  /\ \E h \in Handles : Call_destroy(h) /\ hist' = Note_destroy(h)

ValueGet ==
  /\ ~trapped /\ UNCHANGED <<hist, args>>
  /\ \E h \in Handles : Call_getValue(h)

ValueSet ==
  /\ ~trapped /\ UNCHANGED args
  /\ \E h \in Handles, v \in IntVals : Call_setValue(h, v) /\ hist' = Note_setValue(h)

ValueIncrement ==
  /\ ~trapped /\ UNCHANGED args
  /\ \E h \in Handles : Call_increment(h) /\ hist' = Note_increment(h)

NextValue == ValueCreate \/ ValueDestroy \/ ValueGet \/ ValueSet \/ ValueIncrement

SpecValue == Init /\ [][NextValue]_vars

\* ---- a caller of the message functions that notes what it asked

MessageCreate ==
  /\ ~trapped /\ UNCHANGED args
  /\ \E fault \in CreateFaults : Call_create(0, fault) /\ hist' = Note_create(0)

MessageDestroy ==
  /\ ~trapped /\ UNCHANGED args
  /\ \E h \in Handles : Call_destroy(h) /\ hist' = Note_destroy(h)

MessageGet ==
  /\ ~trapped /\ UNCHANGED <<hist, args>>
  /\ \E h \in Handles, fault \in GetMessageFaults : Call_getMessage(h, fault)

MessageSet ==
  /\ ~trapped /\ UNCHANGED args
  /\ \E h \in Handles, text \in TextArgs, fault \in SetMessageFaults :
       Call_setMessage(h, text, fault) /\ hist' = Note_setMessage(h, text, fault)

MessageFree ==
  /\ ~trapped /\ UNCHANGED <<hist, args>>
  /\ \E str \in owned \cup {NULL} : Call_freeString(str)

NextMessage == MessageCreate \/ MessageDestroy \/ MessageGet \/ MessageSet \/ MessageFree

SpecMessage == Init /\ [][NextMessage]_vars

\* ------------------------------------------------ the calculateSum caller
\* The caller has an array, a count the array holds, and the allocation (if
\* any) that is to fail, in args; it creates one object with any value,
\* gives it any message, and calls calculateSum on it.

SumInputs ==
  {[values |-> PtrTo(a), count |-> n, fault |-> f] :
     a \in Arrays, n \in 0..MaxCount, f \in SumFaults}

InitSum ==
  Fresh /\ args \in {a \in SumInputs : a.count <= Len(a.values.at)}

SumCreate ==
  ~trapped /\ held = {} /\ UNCHANGED <<hist, args>>
  /\ \E v \in IntVals, fault \in CreateFaults : Call_create(v, fault)

SumSetMessage ==
  ~trapped /\ UNCHANGED <<hist, args>>
  /\ \E h \in held, t \in Texts : Call_setMessage(h, PtrTo(t), "none")

SumCalculate ==
  ~trapped /\ UNCHANGED <<hist, args>>
  /\ \E h \in held : Call_calculateSum(h, args.values, args.count, args.fault)

NextSum == SumCreate \/ SumSetMessage \/ SumCalculate

SpecSum == InitSum /\ [][NextSum]_vars

\* ------------------------------------------------------------------ mylib

\* a + b is nowhere undefined
Fits(a, b) == IF b >= 0 THEN a <= INT_MAX - b ELSE a >= INT_MIN - b

\* a + b reduced modulo 2^32 into the range of int32_t, for a sum outside it
Wrapped(a, b) ==
  IF b >= 0 THEN (a - INT_MAX - 1) + (b - INT_MAX - 1)
  ELSE (a + INT_MAX + 1) + (b + INT_MAX + 1)

\* return a + b: outside the range of int the behaviour is undefined; a
\* build wraps, or (built to trap on overflow) aborts.
add_numbers(a, b) ==
  IF Fits(a, b)
    THEN {[val |-> a + b, overflow |-> FALSE, trap |-> FALSE]}
    ELSE {[val |-> Wrapped(a, b), overflow |-> TRUE, trap |-> FALSE],
          [val |-> 0, overflow |-> TRUE, trap |-> TRUE]}

\* for (i = 0; i < count; i++) sum += values[i]; reads counts the elements
\* read.
RECURSIVE average_loop(_, _, _, _)
average_loop(values, count, i, sum) ==
  IF i < count
    THEN average_loop(values, count, i + 1, DAdd(sum, values.at[i + 1]))
    ELSE [sum |-> sum, reads |-> i]

\* A calculate_average without the test of count
calculate_average_nocheck(values, count) ==
  LET l == average_loop(values, count, 0, DZero)
  IN  [val |-> DDivCount(l.sum, count), reads |-> l.reads, divs |-> 1]

\* values: a null pointer or a pointer to an array; divs counts the
\* divisions done.
calculate_average(values, count) ==
  IF count = 0 THEN [val |-> DZero, reads |-> 0, divs |-> 0]
  ELSE LET l == average_loop(values, count, 0, DZero)
       IN  [val |-> DDivCount(l.sum, count), reads |-> l.reads, divs |-> 1]

\* ------------------------------------------------------- the mylib caller
\* The caller has in args the arguments of the one call it makes: any two
\* int32_t for add_numbers; for calculate_average an array and a count the
\* array holds, or a null pointer and the count 0.

Int32s == {INT_MIN, -1, 0, 1, INT_MAX}

AddInputs == {[fn |-> "add_numbers", a |-> a, b |-> b] : a \in Int32s, b \in Int32s}

AverageInputs ==
  {[fn |-> "calculate_average", values |-> NullPtr, count |-> 0]}
    \cup {[fn |-> "calculate_average", values |-> PtrTo(a), count |-> n] :
            a \in Arrays, n \in 0..MaxCount}

InitLib ==
  /\ Fresh
  /\ args \in AddInputs
       \cup {a \in AverageInputs : a.count > 0 => a.count <= Len(a.values.at)}

AddNumbers ==
  /\ ret.op = "none" /\ args.fn = "add_numbers"
  /\ UNCHANGED <<heap, held, owned, hist, args>>
  /\ \E o \in add_numbers(args.a, args.b) :
       /\ ret' = Returned("add_numbers", o.val, FALSE)
       /\ ub' = ub \cup (IF o.overflow THEN {"signed_overflow"} ELSE {})
       /\ trapped' = o.trap

CalculateAverage ==
  /\ ret.op = "none" /\ args.fn = "calculate_average"
  /\ UNCHANGED <<heap, held, owned, hist, args, ub, trapped>>
  /\ LET o == calculate_average(args.values, args.count)
     IN  ret' = [op |-> "calculate_average", val |-> o.val, escaped |-> FALSE,
                 reads |-> o.reads, divs |-> o.divs]

NextLib == AddNumbers \/ CalculateAverage

SpecLib == InitLib /\ [][NextLib]_vars

\* ------------------------------------------------------------ properties

\* The text the caller was promised from getMessage(h)
Promised(h) == IF hist[h].done.null THEN DefaultMessage ELSE hist[h].done.at

\* C3: every getMessage that returns a buffer returns a block that was not
\* allocated and that the caller did not own, now a buffer of the caller's; a
\* getMessage whose malloc fails returns null and leaves the heap as it was;
\* the allocated buffers are at all times exactly those the caller has yet
\* to free (none once it freed each), and none is released twice.
C3_BufferOwnership ==
  /\ [](Buffers = owned /\ "double_free" \notin ub)
  /\ [][\A h \in held, fault \in GetMessageFaults :
          Call_getMessage(h, fault) =>
            /\ ret'.val # NULL =>
                 /\ heap[ret'.val] = Free
                 /\ ret'.val \notin owned
                 /\ heap'[ret'.val].kind = "buf"
                 /\ owned' = owned \cup {ret'.val}
            /\ fault = "malloc" => ret'.val = NULL /\ heap' = heap]_vars

\* C3 witness: a second buffer was returned while the first is outstanding.
C3_TwoBuffersOut ==
  ret.op = "getMessage" /\ ret.val \in owned /\ Cardinality(owned) = 2

\* C6: a getMessage on a held handle that returns a buffer returns a copy, as
\* a C string, of the text of the last setMessage on that handle with a text
\* (one during which no allocation failed), the empty text included, and of
\* "Default message" when there was none since create.
C6_GetAfterSet ==
  [][\A h \in held, fault \in GetMessageFaults :
       Call_getMessage(h, fault) /\ ret'.val # NULL =>
         heap'[ret'.val].bytes = c_str(Promised(h))]_vars

\* C6 witness: the empty text was set and a copy of it returned.
C6_EmptyTextReturned ==
  /\ ret.op = "getMessage" /\ ret.val # NULL
  /\ heap[ret.val].bytes = <<NUL>>
  /\ \E h \in held : ~hist[h].done.null /\ hist[h].done.at = <<>>

\* C5 (as claimed): after create(v) and n increments, with no setValue,
\* getValue returns v + n; an int that v + n does not fit cannot be it.
C5_ValueIsBasePlusIncs ==
  [][\A h \in held :
       Call_getValue(h) /\ ~hist[h].set =>
         /\ hist[h].base <= INT_MAX - hist[h].incs
         /\ ret'.val = hist[h].base + hist[h].incs]_vars

\* The elements of values in the order p
Reordered(values, p) == [i \in 1..Len(values) |-> values[p[i]]]

Permutations(n) == {p \in [1..n -> 1..n] : \A i, j \in 1..n : p[i] = p[j] => i = j}

\* v1 + v2 + ... on doubles, left to right from 0.0
RECURSIVE LeftSum(_)
LeftSum(values) ==
  IF values = <<>> THEN DZero
  ELSE DAdd(LeftSum(SubSeq(values, 1, Len(values) - 1)), values[Len(values)])

\* v1 + v2 + ... without rounding
RECURSIVE ExactSum(_)
ExactSum(values) ==
  IF values = <<>> THEN DZero
  ELSE ExactAdd(ExactSum(SubSeq(values, 1, Len(values) - 1)), values[Len(values)])

\* No addition of the left-to-right sum of values rounds.
NoRounding(values) ==
  \A k \in 0..Len(values) : Representable(ExactSum(SubSeq(values, 1, k)))

\* The first count elements of the array in args
FirstCount == SubSeq(args.values.at, 1, args.count)

\* C7 (as amended): a calculateSum on a live object with an array returns 0.0
\* when the allocation of its copy fails, and otherwise the left-to-right
\* double sum from 0.0 of exactly the first count elements: 0.0 for count 0,
\* a for [a], sum(A) + b for A ++ [b], and sum(A) + sum(B) for A ++ B when no
\* addition on either side rounds; whatever the object's value and message.
C7_LeftToRightSum ==
  ret.op = "calculateSum" =>
    IF args.fault = "vector" THEN ret.val = DZero
    ELSE /\ DEq(ret.val, LeftSum(FirstCount))
         /\ args.count = 0 => ret.val = DZero
         /\ args.count = 1 => DEq(ret.val, FirstCount[1])
         /\ \A h \in held, k \in 0..args.count :
              LET A == SubSeq(FirstCount, 1, k)
                  B == SubSeq(FirstCount, k + 1, args.count)
                  sumA == calculateSum(heap[h], A)
                  sumB == calculateSum(heap[h], B)
              IN  /\ k = args.count - 1 => DEq(ret.val, DAdd(sumA, B[1]))
                  /\ NoRounding(FirstCount) /\ NoRounding(A) /\ NoRounding(B)
                       /\ Representable(ExactAdd(sumA, sumB))
                     => DEq(ret.val, DAdd(sumA, sumB))

\* C7 witness: a sum of the first two of three elements, one that rounded.
C7_RoundedSumOfPrefix ==
  /\ ret.op = "calculateSum" /\ args.fault = "none"
  /\ args.count = 2 /\ Len(args.values.at) = 3
  /\ ~NoRounding(FirstCount)
  /\ DEq(ret.val, LeftSum(FirstCount))

\* C7 (as claimed, for calls during which no allocation fails): the sum of
\* the first count elements is 0.0 for none, a for [a], and
\* sum(A) + sum(B) for every split A ++ B of them.
C7_SumIsAdditive ==
  ret.op = "calculateSum" /\ args.fault = "none" =>
    /\ args.count = 0 => ret.val = DZero
    /\ args.count = 1 => DEq(ret.val, FirstCount[1])
    /\ \A h \in held, k \in 0..args.count :
         DEq(ret.val, DAdd(calculateSum(heap[h], SubSeq(FirstCount, 1, k)),
                           calculateSum(heap[h], SubSeq(FirstCount, k + 1, args.count))))

\* C8 (as amended): calculate_average returns 0.0 for count 0, reading no
\* element and dividing nothing (values may then be null); otherwise it reads
\* the first count elements and returns their left-to-right double sum from
\* 0.0 divided once by (double)count, so that average([x]) == x; the result
\* is the same for a reordering of the elements when no addition of either
\* order rounds.
C8_AverageOfFirstCount ==
  ret.op = "calculate_average" =>
    IF args.count = 0 THEN ret.val = DZero /\ ret.reads = 0 /\ ret.divs = 0
    ELSE /\ ret.val = DDivCount(LeftSum(FirstCount), args.count)
         /\ ret.reads = args.count /\ ret.divs = 1
         /\ args.count = 1 => DEq(ret.val, FirstCount[1])
         /\ \A p \in Permutations(args.count) :
              NoRounding(FirstCount) /\ NoRounding(Reordered(FirstCount, p))
                => DEq(calculate_average(PtrTo(Reordered(FirstCount, p)), args.count).val,
                       ret.val)

\* C8 witness: count 0 with a null array gave 0.0.
C8_NullArrayCountZero ==
  ret.op = "calculate_average" /\ args.values.null /\ ret.val = DZero

\* C8 (as claimed): 0.0 for count 0 with no read and no division, the sum of
\* the first count elements divided by count otherwise, x for [x], and the
\* same result for every reordering of the elements.
C8_AverageIgnoresOrder ==
  ret.op = "calculate_average" =>
    IF args.count = 0 THEN ret.val = DZero /\ ret.reads = 0 /\ ret.divs = 0
    ELSE /\ ret.val = DDivCount(LeftSum(FirstCount), args.count)
         /\ args.count = 1 => DEq(ret.val, FirstCount[1])
         /\ \A p \in Permutations(args.count) :
              DEq(calculate_average(PtrTo(Reordered(FirstCount, p)), args.count).val,
                  ret.val)

\* C9 (as claimed): add_numbers(a, b) has no failure mode and returns a + b
\* for every pair (an int32_t can only be a + b when a + b is one), the same
\* as add_numbers(b, a), and a when b is 0.
C9_AddIsTotal ==
  ret.op = "add_numbers" =>
    /\ ~trapped /\ "signed_overflow" \notin ub
    /\ Fits(args.a, args.b) /\ ret.val = args.a + args.b
    /\ add_numbers(args.b, args.a) = add_numbers(args.a, args.b)
    /\ args.b = 0 => ret.val = args.a

\* C1: with a null handle destroy, setValue, increment and setMessage change
\* nothing, getValue returns 0, getMessage returns null and allocates
\* nothing, calculateSum returns 0.0; so do setMessage with a null text and
\* calculateSum with a null array on any handle.
C1_NullHandle ==
  [][/\ ret'.op = "destroy" /\ Call_destroy(NULL) => heap' = heap
     /\ ret'.op = "getValue" /\ Call_getValue(NULL) => ret'.val = 0 /\ heap' = heap
     /\ ret'.op = "setValue" =>
          \A v \in IntVals : Call_setValue(NULL, v) => heap' = heap
     /\ ret'.op = "increment" /\ Call_increment(NULL) => heap' = heap /\ ub' = ub
     /\ ret'.op = "getMessage" =>
          \A fault \in GetMessageFaults :
            Call_getMessage(NULL, fault) => ret'.val = NULL /\ heap' = heap
     /\ ret'.op = "setMessage" =>
          \A h \in Handles, text \in TextArgs, fault \in SetMessageFaults :
            (h = NULL \/ text.null) /\ Call_setMessage(h, text, fault) => heap' = heap
     /\ ret'.op = "calculateSum" =>
          \A h \in Handles, a \in SumArgs, fault \in SumFaults :
            (h = NULL \/ a.values.null) /\ Call_calculateSum(h, a.values, a.count, fault)
              => ret'.val = DZero /\ heap' = heap]_vars

\* C1 witness: getValue returned 0 while no live object has the value 0.
C1_NullGetValue ==
  /\ ret.op = "getValue" /\ ret.val = 0
  /\ Objects # {} /\ \A a \in Objects : heap[a].value # 0

\* C2: no exception leaves a function; a create during which an allocation
\* fails, or that finds no memory, returns null and leaves the heap as it
\* was; a getMessage during which one fails returns null, a setMessage
\* changes nothing, a calculateSum returns 0.0.
C2_FaultsBecomeSentinels ==
  /\ [](~ret.escaped)
  /\ [][/\ ret'.op = "create" =>
             \A v \in IntVals, fault \in CreateFaults :
               Call_create(v, fault) /\ (fault # "none" \/ FreeCells = {})
                 => ret'.val = NULL /\ heap' = heap
        /\ ret'.op = "getMessage" =>
             \A h \in held, fault \in GetMessageFaults \ {"none"} :
               Call_getMessage(h, fault) => ret'.val = NULL /\ heap' = heap
        /\ ret'.op = "setMessage" =>
             \A h \in held, text \in TextArgs :
               Call_setMessage(h, text, "string") => heap' = heap
        /\ ret'.op = "calculateSum" =>
             \A h \in held, a \in SumArgs :
               Call_calculateSum(h, a.values, a.count, "vector")
                 => ret'.val = DZero /\ heap' = heap]_vars

\* C2 witness: a create returned null though a block was free.
C2_CreateFailed == ret.op = "create" /\ ret.val = NULL /\ FreeCells # {}

\* C4: the live objects are at all times exactly those whose handle the
\* caller holds (created and not destroyed since), and none is used or
\* deleted after its destroy; a create that returns a handle made one new
\* object and touched nothing else; a destroy of a held handle released
\* exactly that object.
C4_Lifecycle ==
  /\ [](Objects = held /\ ub \cap {"use_after_free", "delete_dangling"} = {})
  /\ [][/\ ret'.op = "create" /\ ret'.val # NULL =>
             /\ heap[ret'.val] = Free
             /\ \E v \in IntVals :
                  heap' = [heap EXCEPT ![ret'.val] = MyCppClass(v)]
             /\ held' = held \cup {ret'.val}
        /\ ret'.op = "destroy" =>
             \A h \in held : Call_destroy(h) => heap' = [heap EXCEPT ![h] = Free]]_vars

\* C4 witness: the last object was destroyed while a buffer it gave is out.
C4_DestroyedLast == ret.op = "destroy" /\ held = {} /\ owned # {}

\* C10: on a held handle setValue changes the value of that object only,
\* increment at most its value, setMessage at most its message; getValue
\* and calculateSum change nothing; getMessage changes no block but the one
\* it returns; destroy changes no block but its object; no call touches
\* another object or a buffer returned before.
C10_Frame ==
  [][\A h \in held :
       /\ ret'.op = "setValue" =>
            \A v \in IntVals :
              Call_setValue(h, v) => heap' = [heap EXCEPT ![h].value = v]
       /\ ret'.op = "increment" /\ Call_increment(h) =>
            \E v \in {heap[h].value, heap'[h].value} :
              heap' = [heap EXCEPT ![h].value = v]
       /\ ret'.op = "setMessage" =>
            \A text \in TextArgs, fault \in SetMessageFaults :
              Call_setMessage(h, text, fault) =>
                \E m \in {heap[h].message, heap'[h].message} :
                  heap' = [heap EXCEPT ![h].message = m]
       /\ ret'.op = "getValue" /\ Call_getValue(h) => heap' = heap
       /\ ret'.op = "calculateSum" =>
            \A a \in SumArgs, fault \in SumFaults :
              Call_calculateSum(h, a.values, a.count, fault) => heap' = heap
       /\ ret'.op = "getMessage" =>
            \A fault \in GetMessageFaults :
              Call_getMessage(h, fault) =>
                \A a \in Addr : a # ret'.val => heap'[a] = heap[a]
       /\ ret'.op = "destroy" /\ Call_destroy(h) =>
            \A a \in Addr : a # h => heap'[a] = heap[a]]_vars

\* C10 witness: after a setMessage an object is live, and a buffer holds a
\* text that is no longer its message.
C10_BufferKeepsOldText ==
  /\ ret.op = "setMessage" /\ Objects # {}
  /\ \E b \in Buffers : \A a \in Objects : heap[b].bytes # c_str(heap[a].message)
====
